---- MODULE Spec2Model ----
(***************************************************************************)
(* Model of the Universal Web Scraper request pipeline:                    *)
(*   src/src/main.py                    scrape_url                         *)
(*   src/src/scraper/static_scraper.py  static_scrape, extract_sections... *)
(*   src/src/scraper/js_scraper.py      js_scrape and its stages           *)
(*                                                                         *)
(* Strings whose content is inspected (class / id attributes) are          *)
(* sequences of one-character strings; texts whose content is never        *)
(* inspected are represented by their length.                              *)
(***************************************************************************)
EXTENDS Integers, Sequences, FiniteSets, TLC

(***************************************************************************)
(* Bounds of the model                                                     *)
(***************************************************************************)
\* landmark elements per document
MaxElems == 2
\* selectors of TAB_SELECTORS / LOAD_MORE_SELECTORS / PAGINATION_SELECTORS
\* that match anything on the modelled pages (a prefix of each list)
NumTabSel == 1
NumLoadMoreSel == 1
NumPageSel == 1
\* visible elements a tab selector matches on the modelled pages
MaxTabMatches == 1
\* rounds for which a "load more" button stays visible
MaxLoadMoreRounds == 1

(***************************************************************************)
(* Generic helpers                                                         *)
(***************************************************************************)
Min(a, b) == IF a < b THEN a ELSE b

Range(s) == {s[i] : i \in 1..Len(s)}

Prefix(s, n) == SubSeq(s, 1, Min(n, Len(s)))

\* sequences over S of length <= n
SeqsUpTo(S, n) == UNION {[1..k -> S] : k \in 0..n}

(***************************************************************************)
(* Program constants                                                       *)
(***************************************************************************)
SECTION_SELECTORS ==
    <<"header", "nav", "main", "section", "article", "aside", "footer">>

SECTION_TYPE_MAP ==
    [header |-> "hero", nav |-> "nav", footer |-> "footer", main |-> "section",
     section |-> "section", article |-> "section", aside |-> "section"]

TAB_SELECTORS ==
    <<"[role=tab]", "button[aria-controls]", ".tab", "[data-toggle=tab]",
      ".nav-link[data-bs-toggle=tab]">>

LOAD_MORE_SELECTORS ==
    <<"button:has-text(Load more)", "button:has-text(Show more)",
      "button:has-text(See more)", "button:has-text(View more)",
      "[class*=load-more]", "[class*=loadmore]", "[class*=show-more]",
      "[data-action=load-more]">>

PAGINATION_SELECTORS ==
    <<"a:has-text(Next)", "a:has-text(next)", "[rel=next]",
      ".pagination a:last-child", "[aria-label=Next page]", ".next > a",
      "a.next">>

\* text_length < 500 escalates
MinTextLength == 500
\* all_text[:500]
FallbackTextCap == 500
\* raw_html[:1000]
RawHtmlCap == 1000
\* str(e)[:50]
ErrTextCap == 50
\* tabs[:3]
TabsPerSelector == 3
\* for _ in range(3)
LoadMoreRounds == 3
\* scroll_count=3
ScrollCount == 3
\* max_pages=3
MaxPages == 3
\* page.goto timeouts (ms)
PrimaryTimeout == 15000
FallbackTimeout == 10000

(***************************************************************************)
(* Data model (models.py)                                                  *)
(***************************************************************************)
MetaData(title, description, language, canonical) ==
    [title |-> title, description |-> description,
     language |-> language, canonical |-> canonical]

EmptyMetaData == MetaData("", "", "", "")

\* message = prefix followed by tailLen characters of exception text
ErrorItem(prefix, tailLen, phase) ==
    [phase |-> phase, msg |-> prefix, len |-> Len(prefix) + tailLen]

Interactions(clicks, scrolls, pages) ==
    [clicks |-> clicks, scrolls |-> scrolls, pages |-> pages]

\* an absent string (no matching keyword group, no next link, no page yet)
None == "None"

\* Optional values: None is <<>>, a present value x is <<x>>
Absent == <<>>

Some(x) == <<x>>

(***************************************************************************)
(* Attribute strings: sequences of one-character strings                   *)
(***************************************************************************)
UpperChars == <<"A", "B", "C", "D", "E", "F", "G", "H", "I", "J", "K", "L", "M", "N", "O", "P", "Q", "R", "S", "T", "U", "V", "W", "X", "Y", "Z">>

LowerChars == <<"a", "b", "c", "d", "e", "f", "g", "h", "i", "j", "k", "l", "m", "n", "o", "p", "q", "r", "s", "t", "u", "v", "w", "x", "y", "z">>

\* str.lower() on one character
LowerChar(c) ==
    IF \E i \in 1..Len(UpperChars) : UpperChars[i] = c
    THEN LowerChars[CHOOSE i \in 1..Len(UpperChars) : UpperChars[i] = c]
    ELSE c

\* str.lower()
Lower(s) == [i \in 1..Len(s) |-> LowerChar(s[i])]

\* needle in hay
Contains(hay, needle) ==
    \E i \in 1..(Len(hay) - Len(needle) + 1) :
        SubSeq(hay, i, i + Len(needle) - 1) = needle

\* keyword groups of determine_section_type, in the order they are tested
KEYWORD_GROUPS ==
    <<[type |-> "hero", words |-> <<<<"h", "e", "r", "o">>,
          <<"b", "a", "n", "n", "e", "r">>,
          <<"j", "u", "m", "b", "o", "t", "r", "o", "n">>,
          <<"s", "p", "l", "a", "s", "h">>>>],
      [type |-> "nav", words |-> <<<<"n", "a", "v">>,
          <<"m", "e", "n", "u">>,
          <<"n", "a", "v", "i", "g", "a", "t", "i", "o", "n">>>>],
      [type |-> "footer", words |-> <<<<"f", "o", "o", "t", "e", "r">>,
          <<"f", "o", "o", "t">>>>],
      [type |-> "faq", words |-> <<<<"f", "a", "q">>,
          <<"a", "c", "c", "o", "r", "d", "i", "o", "n">>,
          <<"q", "u", "e", "s", "t", "i", "o", "n">>>>],
      [type |-> "pricing", words |-> <<<<"p", "r", "i", "c", "e">>,
          <<"p", "r", "i", "c", "i", "n", "g">>,
          <<"p", "l", "a", "n">>>>],
      [type |-> "grid", words |-> <<<<"g", "r", "i", "d">>,
          <<"c", "a", "r", "d", "s">>,
          <<"g", "a", "l", "l", "e", "r", "y">>>>],
      [type |-> "list", words |-> <<<<"l", "i", "s", "t">>,
          <<"i", "t", "e", "m", "s">>>>]>>

(***************************************************************************)
(* Documents.  A parsed tree is                                            *)
(*   [origin, hasBody, bodyTextLen, bodyParaLen, bodyLinks, bodyHtmlLen,   *)
(*    head, elems]                                                         *)
(* head  = [title, ogTitle, description, lang, canonical] (head-level tags)*)
(* elems = the landmark elements in document order, each                   *)
(*   [tag, class, id, paraLen, fullLen, headings, links, htmlLen]          *)
(* paraLen = length of the joined non-empty <p> texts, fullLen = length of *)
(* element.text(strip=True), headings / links = number of non-empty        *)
(* headings / of kept a[href] links, htmlLen = length of element.html.     *)
(* origin names the markup the tree was parsed from: "http" (the fetched   *)
(* response) or "browser" (page.content()).                                *)
(***************************************************************************)
LinksCap == 50

\* urljoin(url, href) for the two shapes of href the model uses
AbsoluteHrefs == {"http://canon"}

urljoin(base, href) == IF href \in AbsoluteHrefs THEN href ELSE base \o href

extract_metadata(tree, url) ==
    LET t0 == tree.head.title
        title == IF tree.head.ogTitle # "" THEN tree.head.ogTitle ELSE t0
        canonical == IF tree.head.canonical # ""
                     THEN urljoin(url, tree.head.canonical) ELSE ""
    IN  MetaData(title, tree.head.description, tree.head.lang, canonical)

\* SectionContent, texts by length: [headings, textLen, links]
extract_section_content(element) ==
    [headings |-> element.headings,
     textLen  |-> IF element.paraLen > 0 THEN element.paraLen
                  ELSE Min(element.fullLen, FallbackTextCap),
     links    |-> Min(element.links, LinksCap)]

RECURSIVE FirstGroup(_, _)
FirstGroup(combined, k) ==
    IF k > Len(KEYWORD_GROUPS) THEN None
    ELSE IF \E w \in Range(KEYWORD_GROUPS[k].words) : Contains(combined, w)
         THEN KEYWORD_GROUPS[k].type
         ELSE FirstGroup(combined, k + 1)

\* determine_section_type without the keyword tests of lines 165-178
DetermineSectionTypeByTag(element) ==
    IF element.tag \in DOMAIN SECTION_TYPE_MAP
    THEN SECTION_TYPE_MAP[element.tag] ELSE "unknown"

determine_section_type(element) ==
    LET base_type == IF element.tag \in DOMAIN SECTION_TYPE_MAP
                     THEN SECTION_TYPE_MAP[element.tag] ELSE "unknown"
        combined == Lower(element.class) \o <<" ">> \o Lower(element.id)
        hit == FirstGroup(combined, 1)
    IN  IF hit # None THEN hit ELSE base_type

\* f"{section_type}-{n}"
SectionId(type, n) == type \o "-" \o ToString(n)

\* Section truncating markup of exactly RawHtmlCap characters as well
SectionTruncatingAtCap(id, type, content, htmlLen, url, origin) ==
    [id |-> id, type |-> type, sourceUrl |-> url,
     headings |-> content.headings, textLen |-> content.textLen,
     links |-> content.links,
     rawLen |-> IF htmlLen >= RawHtmlCap THEN RawHtmlCap + 3 ELSE htmlLen,
     truncated |-> htmlLen >= RawHtmlCap,
     origin |-> origin]

\* a Section built at lines 227-241 or 247-260; rawLen = len(rawHtml), where
\* the marker "..." adds 3 characters to the RawHtmlCap characters kept
Section(id, type, content, htmlLen, url, origin) ==
    [id |-> id, type |-> type, sourceUrl |-> url,
     headings |-> content.headings, textLen |-> content.textLen,
     links |-> content.links,
     rawLen |-> IF htmlLen > RawHtmlCap THEN RawHtmlCap + 3 ELSE htmlLen,
     truncated |-> htmlLen > RawHtmlCap,
     origin |-> origin]

\* the elements in scan order: for selector in SECTION_SELECTORS, tree.css(selector)
RECURSIVE ScanOrder(_, _)
ScanOrder(elems, k) ==
    IF k > Len(SECTION_SELECTORS) THEN <<>>
    ELSE SelectSeq(elems, LAMBDA e : e.tag = SECTION_SELECTORS[k])
         \o ScanOrder(elems, k + 1)

\* IsEmptyContent without the test of the links
IsEmptyContentIgnoringLinks(content) ==
    content.textLen = 0 /\ content.headings = 0

IsEmptyContent(content) ==
    content.textLen = 0 /\ content.headings = 0 /\ content.links = 0

\* CountOfType with one counter shared by all types
CountOfAnyType(sections, type) == Len(sections)

\* number of sections of `type` already emitted (section_counts[type])
CountOfType(sections, type) ==
    Cardinality({i \in 1..Len(sections) : sections[i].type = type})

RECURSIVE LandmarkScan(_, _, _, _, _)
LandmarkScan(scan, i, sections, url, origin) ==
    IF i > Len(scan) THEN sections
    ELSE LET content == extract_section_content(scan[i])
             type == determine_section_type(scan[i])
         IN  IF IsEmptyContent(content)
             THEN LandmarkScan(scan, i + 1, sections, url, origin)
             ELSE LandmarkScan(scan, i + 1,
                      Append(sections,
                          Section(SectionId(type, CountOfType(sections, type)),
                                  type, content, scan[i].htmlLen, url, origin)),
                      url, origin)

BodyElement(tree) ==
    [tag |-> "body", class |-> <<>>, id |-> <<>>,
     paraLen |-> tree.bodyParaLen, fullLen |-> tree.bodyTextLen,
     headings |-> 0, links |-> tree.bodyLinks, htmlLen |-> tree.bodyHtmlLen]

extract_sections(tree, url) ==
    LET sections == LandmarkScan(ScanOrder(tree.elems, 1), 1, <<>>, url, tree.origin)
    IN  IF sections # <<>> THEN sections
        ELSE IF tree.hasBody
             THEN <<Section("body-0", "unknown",
                            extract_section_content(BodyElement(tree)),
                            tree.bodyHtmlLen, url, tree.origin)>>
             ELSE <<>>

get_text_content_length(tree) == IF tree.hasBody THEN tree.bodyTextLen ELSE 0

(***************************************************************************)
(* static_scrape                                                           *)
(***************************************************************************)
\* NeedsJs without the test of line 310 for sections whose text is empty
NeedsJsIgnoringEmptyText(text_length, sections) ==
    \/ text_length < MinTextLength
    \/ sections = <<>>

\* lines 304-305 and 310-311: the two places that set needs_js
NeedsJs(text_length, sections) ==
    \/ text_length < MinTextLength
    \/ sections = <<>>
    \/ \A i \in 1..Len(sections) : sections[i].textLen = 0

StaticResult(metadata, sections, errors, needs_js) ==
    [metadata |-> metadata, sections |-> sections,
     errors |-> errors, needs_js |-> needs_js]

\* FetchFailure returning needs_js = False
FetchFailureNotEscalating(error) == StaticResult(EmptyMetaData, <<>>, <<error>>, FALSE)

\* the return value on a failed fetch (lines 289-297)
FetchFailure(error) == StaticResult(EmptyMetaData, <<>>, <<error>>, TRUE)

\* ParseFailure returning needs_js = False
ParseFailureNotEscalating(error) == StaticResult(EmptyMetaData, <<>>, <<error>>, FALSE)

\* the return value on a failed parse (lines 315-317)
ParseFailure(error) == StaticResult(EmptyMetaData, <<>>, <<error>>, TRUE)

\* outcome = what the transport and the parser do for this request:
\*   [fetch |-> "timeout" | "status" | "other" | "ok", parse |-> "ok" | "fail",
\*    excLen |-> length of the exception text, tree |-> the parsed document]
static_scrape(url, outcome) ==
    CASE outcome.fetch = "timeout" ->
            FetchFailure(ErrorItem("Request timeout", 0, "fetch"))
      [] outcome.fetch = "status" ->
            FetchFailure(ErrorItem("HTTP ", 3, "fetch"))
      [] outcome.fetch = "other" ->
            FetchFailure(ErrorItem("", outcome.excLen, "fetch"))
      [] outcome.fetch = "ok" /\ outcome.parse = "fail" ->
            ParseFailure(ErrorItem("", outcome.excLen, "parse"))
      [] OTHER ->
            LET tree == outcome.tree
                sections == extract_sections(tree, url)
            IN  StaticResult(extract_metadata(tree, url), sections, <<>>,
                             NeedsJs(get_text_content_length(tree), sections))

(***************************************************************************)
(* Inputs: the documents and failures the environment can produce          *)
(***************************************************************************)
\* The request's url is the program's input.  Three kinds of site are
\* requested, so that each part of the pipeline meets varied inputs without
\* the model multiplying them all:
\*   a document site: the markup's landmark elements vary, the browser session
\*     is uneventful;
\*   an application site: the head-level tags vary, the pages hold tabs and
\*     "load more" buttons, and any call of the browser session can fail;
\*   a shop site: as the application site, with redirects and "next page"
\*     links in place of the tabs and buttons.
DocsUrl == "http://docs/"

AppUrl == "http://app/"

ShopUrl == "http://shop/"

RequestUrls == {DocsUrl, AppUrl, ShopUrl}

\* whether the browser session of a request for url never raises
Reliable(url) == url = DocsUrl

\* URLs the browser can be at while serving a request for url
Urls(url) == IF url = ShopUrl THEN {url, url \o "p2"} ELSE {url}

\* href attributes of "next page" links: absolute and relative
Hrefs(url) == Urls(url) \cup {"/p2"}

\* lengths of exception texts, below and above ErrTextCap
ExcTextLens(url) == IF url = DocsUrl THEN {12, 80} ELSE {80}

HeadTags(title, ogTitle, description, lang, canonical) ==
    [title |-> title, ogTitle |-> ogTitle, description |-> description,
     lang |-> lang, canonical |-> canonical]

Heads ==
    { HeadTags("", "", "", "", ""),
      HeadTags("", "", "about", "en", "/c"),
      HeadTags("Home", "", "about", "en", "http://canon"),
      HeadTags("Home", "OG", "", "", "") }

DocsHeads == {h \in Heads : h.title = "" /\ h.description # ""}

Element(tag, class, paraLen, fullLen, headings, links, htmlLen) ==
    [tag |-> tag, class |-> class, id |-> <<>>, paraLen |-> paraLen,
     fullLen |-> fullLen, headings |-> headings, links |-> links,
     htmlLen |-> htmlLen]

\* a header with a short paragraph, a section with a longer paragraph, a
\* section holding only links (emitted with empty text), an empty section
\* (skipped)
Elems ==
    { Element("header", <<>>, 5, 5, 1, 0, 120),
      Element("section", <<>>, 26, 26, 0, 1, 1200),
      Element("section", <<>>, 0, 0, 0, 1, 80),
      Element("section", <<>>, 0, 0, 0, 0, 40) }

BodyTextLens == {0, 400, 600}

Tree(origin, hasBody, bodyTextLen, head, elems) ==
    [origin |-> origin, hasBody |-> hasBody, bodyTextLen |-> bodyTextLen,
     bodyParaLen |-> 0, bodyLinks |-> 0,
     bodyHtmlLen |-> IF hasBody THEN 1500 ELSE 0,
     head |-> head, elems |-> elems]

\* the documents a site can serve; every element's text is part of the body's
Trees(origin, url) ==
    IF url = DocsUrl
    THEN { Tree(origin, FALSE, 0, h, <<>>) : h \in DocsHeads }
         \cup
         { t \in { Tree(origin, TRUE, n, h, es) :
                     n \in BodyTextLens, h \in DocsHeads,
                     es \in SeqsUpTo(Elems, MaxElems) } :
             \A i \in 1..Len(t.elems) : t.elems[i].fullLen <= t.bodyTextLen }
    ELSE { Tree(origin, TRUE, 400, h, <<e>>) :
             h \in Heads, e \in {x \in Elems : x.paraLen > 5} }

NoTree == [origin |-> None]

StaticOutcomes(url) ==
    { [fetch |-> f, parse |-> "ok", excLen |-> 0, tree |-> NoTree] :
        f \in {"timeout", "status"} }
    \cup { [fetch |-> "other", parse |-> "ok", excLen |-> n, tree |-> NoTree] :
             n \in ExcTextLens(url) }
    \cup { [fetch |-> "ok", parse |-> "fail", excLen |-> n, tree |-> NoTree] :
             n \in ExcTextLens(url) }
    \cup { [fetch |-> "ok", parse |-> "ok", excLen |-> 0, tree |-> t] :
             t \in Trees("http", url) }

(***************************************************************************)
(* Inputs of the extraction functions applied on their own                 *)
(***************************************************************************)
\* landmark elements per scanned document
MaxScanElems == 3

\* class attributes: "", "pricing-table", "Hero", "menu-foot", "card",
\* "gallery list", "checklist"
ClassAttrs ==
    { <<>>,
      <<"p", "r", "i", "c", "i", "n", "g", "-", "t", "a", "b", "l", "e">>,
      <<"H", "e", "r", "o">>,
      <<"m", "e", "n", "u", "-", "f", "o", "o", "t">>,
      <<"c", "a", "r", "d">>,
      <<"g", "a", "l", "l", "e", "r", "y", " ", "l", "i", "s", "t">>,
      <<"c", "h", "e", "c", "k", "l", "i", "s", "t">> }

\* id attributes: "", "FAQ", "items", "splash"
IdAttrs ==
    { <<>>,
      <<"F", "A", "Q">>,
      <<"i", "t", "e", "m", "s">>,
      <<"s", "p", "l", "a", "s", "h">> }

\* the landmark tags and a tag without a base type
Tags == Range(SECTION_SELECTORS) \cup {"div"}

TypeInputs ==
    { [tag |-> t, class |-> c, id |-> i] : t \in Tags, c \in ClassAttrs, i \in IdAttrs }

\* a header with a short paragraph; a section of class "pricing-table" whose
\* markup is one character over the cap; a section holding only a link, its
\* markup exactly at the cap; an empty section; an article without <p> whose
\* text exceeds the fallback cap; a nav of class "Hero" holding only a
\* heading; an empty footer
ScanElems ==
    { Element("header", <<>>, 5, 5, 1, 0, 120),
      Element("section", <<"p", "r", "i", "c", "i", "n", "g", "-", "t", "a", "b", "l", "e">>, 26, 26, 0, 1, RawHtmlCap + 1),
      Element("section", <<>>, 0, 0, 0, 1, RawHtmlCap),
      Element("section", <<>>, 0, 0, 0, 0, 40),
      Element("article", <<>>, 0, 700, 0, 0, 1200),
      Element("nav", <<"H", "e", "r", "o">>, 0, 0, 1, 0, 60),
      Element("footer", <<>>, 0, 0, 0, 0, 30) }

\* [hasBody, bodyTextLen, bodyHtmlLen]
ScanBodies ==
    { [hasBody |-> FALSE, bodyTextLen |-> 0, bodyHtmlLen |-> 0],
      [hasBody |-> TRUE, bodyTextLen |-> 0, bodyHtmlLen |-> 900],
      [hasBody |-> TRUE, bodyTextLen |-> 800, bodyHtmlLen |-> 1500] }

\* the documents extract_sections is applied to; every element's text is part
\* of the body's
ScanTrees ==
    { t \in { [Tree("http", b.hasBody, b.bodyTextLen, HeadTags("", "", "", "", ""), es)
                 EXCEPT !.bodyHtmlLen = b.bodyHtmlLen] :
                 b \in ScanBodies, es \in SeqsUpTo(ScanElems, MaxScanElems) } :
        /\ \A i \in 1..Len(t.elems) : t.elems[i].fullLen <= t.bodyTextLen
        /\ ~t.hasBody => t.elems = <<>> }

(***************************************************************************)
(* js_scrape: the interaction stages                                       *)
(***************************************************************************)
\* ErrorItem(message=f"{prefix}{str(e)[:50]}", phase=...)
JsError(prefix, excLen, phase) == ErrorItem(prefix, Min(excLen, ErrTextCap), phase)

\* What a page does when a stage runs on it.
\* click_tabs, per selector: query_selector_all raises, or the matched tabs,
\* each hidden, clicked, failing in click() or failing in the pause after it.
TabEnvs(url) ==
    LET perSel == { [raise |-> TRUE, excLen |-> n, tabs |-> <<>>] :
                      n \in IF url = AppUrl THEN ExcTextLens(url) ELSE {} }
                  \cup { [raise |-> FALSE, excLen |-> 0, tabs |-> t] :
                           t \in SeqsUpTo({"hidden", "clicked", "click_fails", "wait_fails"},
                                          IF url = AppUrl THEN MaxTabMatches ELSE 0) }
    IN  [1..Min(NumTabSel, Len(TAB_SELECTORS)) -> perSel]

\* click_load_more, per selector: the rounds in which the button is found
\* visible, each clicked, failing in click() or failing in the pause after it;
\* after the last listed round the button is gone.
LoadMoreEnvs(url) ==
    [1..Min(NumLoadMoreSel, Len(LOAD_MORE_SELECTORS)) ->
        SeqsUpTo({"clicked", "click_fails", "wait_fails"},
                 IF url = AppUrl THEN MaxLoadMoreRounds ELSE 0)]

\* perform_scrolls: the iteration (0 = none) and the call that raises
ScrollEnvs(url) ==
    { [failAt |-> 0, call |-> "none", excLen |-> 0] }
    \cup { [failAt |-> i, call |-> c, excLen |-> n] :
             i \in IF url = AppUrl THEN {ScrollCount - 1} ELSE {},
             c \in {"evaluate", "wait"}, n \in ExcTextLens(url) }

\* follow_pagination, per iteration: what each selector finds (query raises,
\* nothing visible, or a visible link with its href) and what the click does
\* (raises, or the URL the page is at afterwards)
PageEnvs(url) ==
    LET finds == IF url = ShopUrl THEN {"raise", "none"} \cup Hrefs(url) ELSE {"none"}
        iter == [links : [1..Min(NumPageSel, Len(PAGINATION_SELECTORS)) -> finds],
                 click : {"raise"} \cup Urls(url)]
    IN  [1..(MaxPages - 1) -> iter]

\* for i, tab in enumerate(tabs[:3]) (lines 44-51)
RECURSIVE ClickEach(_, _, _, _)
ClickEach(tabs, i, selector, clicks) ==
    IF i > Len(tabs) THEN clicks
    ELSE ClickEach(tabs, i + 1, selector,
                   IF tabs[i] \in {"clicked", "wait_fails"}
                   THEN Append(clicks, selector) ELSE clicks)

RECURSIVE click_tabs(_, _, _, _)
click_tabs(k, interactions, errors, env) ==
    IF k > Len(TAB_SELECTORS) THEN [interactions |-> interactions, errors |-> errors]
    ELSE IF k \notin DOMAIN env
         THEN click_tabs(k + 1, interactions, errors, env)
         ELSE IF env[k].raise
              THEN click_tabs(k + 1, interactions,
                       Append(errors, JsError("Tab click error: ", env[k].excLen, "interaction")),
                       env)
              ELSE click_tabs(k + 1,
                       [interactions EXCEPT !.clicks =
                           ClickEach(Prefix(env[k].tabs, TabsPerSelector), 1,
                                     TAB_SELECTORS[k], @)],
                       errors, env)

\* ClickRounds clicking for as long as the button stays visible
RECURSIVE ClickRoundsUnbounded(_, _, _, _)
ClickRoundsUnbounded(rounds, i, selector, clicks) ==
    IF i > Len(rounds) THEN clicks
    ELSE IF rounds[i] = "clicked"
         THEN ClickRoundsUnbounded(rounds, i + 1, selector, Append(clicks, selector))
         ELSE IF rounds[i] = "wait_fails" THEN Append(clicks, selector)
              ELSE clicks

\* for _ in range(3) (lines 59-69)
RECURSIVE ClickRounds(_, _, _, _)
ClickRounds(rounds, i, selector, clicks) ==
    IF i > LoadMoreRounds \/ i > Len(rounds) THEN clicks
    ELSE IF rounds[i] = "clicked"
         THEN ClickRounds(rounds, i + 1, selector, Append(clicks, selector))
         ELSE IF rounds[i] = "wait_fails" THEN Append(clicks, selector)
              ELSE clicks

RECURSIVE click_load_more(_, _, _)
click_load_more(k, interactions, env) ==
    IF k > Len(LOAD_MORE_SELECTORS) THEN interactions
    ELSE IF k \notin DOMAIN env THEN click_load_more(k + 1, interactions, env)
         ELSE click_load_more(k + 1,
                  [interactions EXCEPT !.clicks =
                      ClickRounds(env[k], 1, LOAD_MORE_SELECTORS[k], @)],
                  env)

perform_scrolls(interactions, errors, env) ==
    IF env.failAt = 0 \/ env.failAt > ScrollCount
    THEN [interactions |-> [interactions EXCEPT !.scrolls = @ + ScrollCount],
          errors |-> errors]
    ELSE [interactions |->
             [interactions EXCEPT !.scrolls =
                 @ + (IF env.call = "evaluate" THEN env.failAt - 1 ELSE env.failAt)],
          errors |-> Append(errors, JsError("Scroll error: ", env.excLen, "interaction"))]

\* what a selector found: the query raised ("raise"), no visible match
\* ("none"), a visible match without href (""), or the href of the match
NoHref == {"raise", "none", ""}

\* NextLink taking links whose href was already visited as well
RECURSIVE NextLinkIgnoringVisited(_, _, _)
NextLinkIgnoringVisited(links, k, visited_urls) ==
    IF k > Len(PAGINATION_SELECTORS) \/ k \notin DOMAIN links THEN 0
    ELSE IF links[k] \notin NoHref THEN k
         ELSE NextLinkIgnoringVisited(links, k + 1, visited_urls)

\* for selector in PAGINATION_SELECTORS (lines 95-104): the index of the
\* selector that found next_link, 0 when next_link stays None
RECURSIVE NextLink(_, _, _)
NextLink(links, k, visited_urls) ==
    IF k > Len(PAGINATION_SELECTORS) \/ k \notin DOMAIN links THEN 0
    ELSE IF links[k] \notin NoHref /\ links[k] \notin Range(visited_urls)
         THEN k
         ELSE NextLink(links, k + 1, visited_urls)

\* state of the loop: [interactions, visited_urls, page_url, clicked, stopped]
\* clicked = the selectors whose link was clicked, stopped = the loop was left
\* at line 107
PaginationState(interactions, visited_urls, page_url, clicked, stopped) ==
    [interactions |-> interactions, visited_urls |-> visited_urls,
     page_url |-> page_url, clicked |-> clicked, stopped |-> stopped]

\* one iteration of the loop (lines 93-121); it = [links, click]: what each
\* selector finds, and what the click does ("raise", or the URL the page is
\* at after it)
PaginationIteration(state, it) ==
    LET k == NextLink(it.links, 1, state.visited_urls)
    IN  IF k = 0 THEN [state EXCEPT !.stopped = TRUE]
        ELSE IF it.click = "raise"
             THEN [state EXCEPT !.clicked = Append(@, PAGINATION_SELECTORS[k])]
             ELSE LET current_url == it.click
                      new == current_url \notin Range(state.visited_urls)
                  IN  PaginationState(
                          IF new
                          THEN [state.interactions EXCEPT !.pages = Append(@, current_url)]
                          ELSE state.interactions,
                          IF new THEN Append(state.visited_urls, current_url)
                          ELSE state.visited_urls,
                          current_url,
                          Append(state.clicked, PAGINATION_SELECTORS[k]),
                          FALSE)

\* for _ in range(max_pages - 1)
RECURSIVE PaginationLoop(_, _, _)
PaginationLoop(i, state, env) ==
    IF i > MaxPages - 1 \/ state.stopped THEN state
    ELSE PaginationLoop(i + 1, PaginationIteration(state, env[i]), env)

\* line 90
PaginationStart(page_url, interactions) ==
    PaginationState(interactions, <<page_url>>, page_url, <<>>, FALSE)

follow_pagination(page_url, interactions, env) ==
    PaginationLoop(1, PaginationStart(page_url, interactions), env)

(***************************************************************************)
(* js_scrape: merging the rendered sections (lines 175-185)                *)
(***************************************************************************)
\* ShouldReplace with >= for >
ShouldReplaceOnTie(sec, existing) == sec.textLen >= existing.textLen

ShouldReplace(sec, existing) == sec.textLen > existing.textLen

FirstIndexOf(sections, id) ==
    CHOOSE i \in 1..Len(sections) :
        /\ sections[i].id = id
        /\ \A j \in 1..(i - 1) : sections[j].id # id

\* MergeOne without the append of line 179
MergeOneDroppingNew(sections, sec, existing_ids) ==
    IF sec.id \notin existing_ids THEN sections
    ELSE LET i == FirstIndexOf(sections, sec.id)
         IN  IF ShouldReplace(sec, sections[i])
             THEN [sections EXCEPT ![i] = sec] ELSE sections

\* MergeOne without the length test of line 183
MergeOneAlwaysReplacing(sections, sec, existing_ids) ==
    IF sec.id \notin existing_ids THEN Append(sections, sec)
    ELSE [sections EXCEPT ![FirstIndexOf(sections, sec.id)] = sec]

\* MergeOne without the id test of line 178
MergeOneAlwaysAppending(sections, sec, existing_ids) == Append(sections, sec)

MergeOne(sections, sec, existing_ids) ==
    IF sec.id \notin existing_ids THEN Append(sections, sec)
    ELSE LET i == FirstIndexOf(sections, sec.id)
         IN  IF ShouldReplace(sec, sections[i])
             THEN [sections EXCEPT ![i] = sec] ELSE sections

RECURSIVE MergeFrom(_, _, _, _)
MergeFrom(sections, js_sections, k, existing_ids) ==
    IF k > Len(js_sections) THEN sections
    ELSE MergeFrom(MergeOne(sections, js_sections[k], existing_ids),
                   js_sections, k + 1, existing_ids)

MergeSections(sections, js_sections) ==
    IF js_sections = <<>> THEN sections
    ELSE MergeFrom(sections, js_sections, 1,
                   {sections[i].id : i \in 1..Len(sections)})

\* lines 166-188: re-parse of the captured document.  outcome.parse is "ok",
\* "fail_tree" (HTMLParser, remove_noise or extract_metadata raises) or
\* "fail_sections" (extract_sections raises, after metadata was assigned)
Reparse(url, existing_metadata, metadata, sections, errors, outcome) ==
    LET tree == outcome.tree
        extract == existing_metadata = Absent \/ existing_metadata[1].title = ""
        metadata2 == IF extract THEN extract_metadata(tree, url) ELSE metadata
        extracted2 == IF extract THEN Some(extract_metadata(tree, url)) ELSE Absent
        parse_error == JsError("Parse error: ", outcome.excLen, "parse")
    IN  CASE outcome.parse = "fail_tree" ->
                [metadata |-> metadata, sections |-> sections,
                 errors |-> Append(errors, parse_error), js_sections |-> Absent,
                 extracted |-> Absent]
          [] outcome.parse = "fail_sections" ->
                [metadata |-> metadata2, sections |-> sections,
                 errors |-> Append(errors, parse_error), js_sections |-> Absent,
                 extracted |-> extracted2]
          [] OTHER ->
                [metadata |-> metadata2,
                 sections |-> MergeSections(sections, extract_sections(tree, url)),
                 errors |-> errors, js_sections |-> Some(extract_sections(tree, url)),
                 extracted |-> extracted2]

CaptureOutcomes(url) ==
    { [parse |-> "fail_tree", excLen |-> n, tree |-> NoTree] :
        n \in IF Reliable(url) THEN {} ELSE ExcTextLens(url) }
    \cup { [parse |-> "fail_sections", excLen |-> n, tree |-> t] :
             n \in IF Reliable(url) THEN {} ELSE ExcTextLens(url),
             t \in Trees("browser", url) }
    \cup { [parse |-> "ok", excLen |-> 0, tree |-> t] : t \in Trees("browser", url) }

(***************************************************************************)
(* scrape_url                                                              *)
(***************************************************************************)
\* line 54
ShouldRender(needs_js, sections) == needs_js \/ sections = <<>>

ScrapeResult(url, meta, sections, interactions, errors) ==
    [url |-> url, meta |-> meta, sections |-> sections,
     interactions |-> interactions, errors |-> errors]

(***************************************************************************)
(* State                                                                   *)
(***************************************************************************)
VARIABLES
    pc,                 \* position of the request
    url,                \* request.url
    \* scrape_url
    metadata, sections, errors, needs_js, interactions, result,
    \* js_scrape: its parameter, its locals metadata, sections, errors,
    \* interactions, and the rendered section list js_sections (line 173)
    existing_metadata, r_metadata, r_sections, r_errors, r_interactions,
    js_sections,
    \* the browser: the playwright driver, the browser and the context
    \* ("none", "open", "closed"), the page's URL, and how the async with
    \* block is being left ("none", "normal", "return", "raise")
    playwright, browser, context, page_url, pending,
    \* history: what static_scrape met (the fetch and parse outcomes and the
    \* measured text length, -1 when not measured) and what it returned, the
    \* metadata extracted from the rendered document (line 171), the
    \* navigation attempts, the steps of js_scrape that were started
    static_in, static_out, extracted, nav, stages,
    \* a function applied on its own: the call and what it returned
    call, ret

mainVars == <<url, metadata, sections, errors, needs_js, interactions, result>>

jsVars == <<existing_metadata, r_metadata, r_sections, r_errors, r_interactions,
            js_sections>>

pwVars == <<playwright, browser, context, page_url, pending>>

histVars == <<static_in, static_out, extracted, nav, stages>>

unitVars == <<call, ret>>

vars == <<pc, mainVars, jsVars, pwVars, histVars, unitVars>>

NoPending == [kind |-> "none", excLen |-> 0]

\* the state of a request before its first step
Fresh ==
    /\ metadata = EmptyMetaData /\ sections = <<>> /\ errors = <<>>
    /\ needs_js = FALSE /\ interactions = Interactions(<<>>, 0, <<>>)
    /\ result = Absent
    /\ existing_metadata = Absent /\ r_metadata = EmptyMetaData
    /\ r_sections = <<>> /\ r_errors = <<>>
    /\ r_interactions = Interactions(<<>>, 0, <<>>) /\ js_sections = Absent
    /\ playwright = "none" /\ browser = "none" /\ context = "none"
    /\ page_url = None /\ pending = NoPending
    /\ static_in = Absent /\ static_out = Absent /\ extracted = Absent
    /\ nav = <<>> /\ stages = {}

Init ==
    /\ pc = "static_scrape"
    /\ url \in RequestUrls
    /\ Fresh
    /\ call = Absent /\ ret = Absent

(***************************************************************************)
(* scrape_url, lines 47-52: the static pass                                *)
(***************************************************************************)
StaticScrape ==
    /\ pc = "static_scrape"
    /\ \E outcome \in StaticOutcomes(url) :
         LET r == static_scrape(url, outcome)
         IN  /\ metadata' = r.metadata
             /\ sections' = r.sections
             /\ errors' = r.errors
             /\ needs_js' = r.needs_js
             /\ static_out' = Some(r)
             /\ static_in' = Some([fetch |-> outcome.fetch, parse |-> outcome.parse,
                                   text_length |->
                                      IF outcome.fetch = "ok" /\ outcome.parse = "ok"
                                      THEN get_text_content_length(outcome.tree)
                                      ELSE -1])
    /\ interactions' = Interactions(<<>>, 0, <<url>>)
    /\ pc' = "branch"
    /\ UNCHANGED <<unitVars, url, result, jsVars, pwVars, extracted, nav, stages>>

\* line 54 false, lines 68-77
BranchSkip ==
    /\ pc = "branch"
    /\ ~ShouldRender(needs_js, sections)
    /\ result' = Some(ScrapeResult(url, metadata, sections, interactions, errors))
    /\ pc' = "done"
    /\ UNCHANGED <<unitVars, url, metadata, sections, errors, needs_js, interactions,
                   jsVars, pwVars, histVars>>

\* line 54 true, lines 55-59 and js_scrape lines 131-136
BranchRender ==
    /\ pc = "branch"
    /\ ShouldRender(needs_js, sections)
    /\ existing_metadata' = IF metadata.title # "" THEN Some(metadata) ELSE Absent
    /\ r_errors' = <<>>
    /\ r_interactions' = Interactions(<<>>, 0, <<url>>)
    /\ r_metadata' = IF metadata.title # "" THEN metadata ELSE EmptyMetaData
    /\ r_sections' = sections
    /\ stages' = {"js_scrape"}
    /\ pc' = "playwright"
    /\ UNCHANGED <<unitVars, mainVars, js_sections, pwVars, static_in, static_out, extracted, nav>>

(***************************************************************************)
(* js_scrape                                                               *)
(***************************************************************************)
\* an exception leaves the async with block (caught at line 192)
Raise(n) ==
    /\ ~Reliable(url)
    /\ pending' = [kind |-> "raise", excLen |-> n]
    /\ pc' = "exit"

\* line 139: async_playwright().__aenter__()
StartPlaywright ==
    /\ pc = "playwright"
    /\ \/ /\ playwright' = "running"
          /\ pc' = "launch"
          /\ UNCHANGED r_errors
       \/ \E n \in ExcTextLens(url) :
            /\ ~Reliable(url)
            /\ r_errors' = Append(r_errors, JsError("Browser error: ", n, "render"))
            /\ pc' = "js_return"
            /\ UNCHANGED playwright
    /\ UNCHANGED <<unitVars, mainVars, existing_metadata, r_metadata, r_sections,
                   r_interactions, js_sections, browser, context, page_url,
                   pending, histVars>>

\* line 140
Launch ==
    /\ pc = "launch"
    /\ \/ /\ browser' = "open"
          /\ pc' = "new_context"
          /\ UNCHANGED pending
       \/ /\ \E n \in ExcTextLens(url) : Raise(n)
          /\ UNCHANGED browser
    /\ UNCHANGED <<unitVars, mainVars, jsVars, playwright, context, page_url, histVars>>

\* lines 141-144
NewContext ==
    /\ pc = "new_context"
    /\ \/ /\ context' = "open"
          /\ pc' = "new_page"
          /\ UNCHANGED pending
       \/ /\ \E n \in ExcTextLens(url) : Raise(n)
          /\ UNCHANGED context
    /\ UNCHANGED <<unitVars, mainVars, jsVars, playwright, browser, page_url, histVars>>

\* line 145
NewPage ==
    /\ pc = "new_page"
    /\ \/ /\ pc' = "goto"
          /\ UNCHANGED pending
       \/ \E n \in ExcTextLens(url) : Raise(n)
    /\ UNCHANGED <<unitVars, mainVars, jsVars, playwright, browser, context, page_url,
                   histVars>>

\* page.goto(url, wait_until=..., timeout=...) and whether it returned
Goto(wait_until, timeout, ok) ==
    [wait_until |-> wait_until, timeout |-> timeout, ok |-> ok]

\* lines 147-149
GotoPrimary ==
    /\ pc = "goto"
    /\ \/ /\ page_url' \in Urls(url)
          /\ nav' = Append(nav, Goto("networkidle", PrimaryTimeout, TRUE))
          /\ pc' = "settle"
       \/ /\ ~Reliable(url)
          /\ nav' = Append(nav, Goto("networkidle", PrimaryTimeout, FALSE))
          /\ pc' = "goto_retry"
          /\ UNCHANGED page_url
    /\ UNCHANGED <<unitVars, mainVars, jsVars, playwright, browser, context, pending,
                   static_in, static_out, extracted, stages>>

\* falling through to line 156 after the second failure
FallThroughAfterNavigationFailure == "settle"

\* line 154: the return after the second failure leaves the block
AfterNavigationFailure == "exit"

\* lines 150-154
GotoFallback ==
    /\ pc = "goto_retry"
    /\ \/ /\ page_url' \in Urls(url)
          /\ nav' = Append(nav, Goto("domcontentloaded", FallbackTimeout, TRUE))
          /\ pc' = "settle"
          /\ UNCHANGED <<r_errors, pending>>
       \/ \E n \in ExcTextLens(url) :
            /\ nav' = Append(nav, Goto("domcontentloaded", FallbackTimeout, FALSE))
            /\ r_errors' = Append(r_errors, JsError("Navigation failed: ", n, "render"))
            /\ pending' = [kind |-> "return", excLen |-> 0]
            /\ pc' = AfterNavigationFailure
            /\ UNCHANGED page_url
    /\ UNCHANGED <<unitVars, mainVars, existing_metadata, r_metadata, r_sections,
                   r_interactions, js_sections, playwright, browser, context,
                   static_in, static_out, extracted, stages>>

\* line 156
Settle ==
    /\ pc = "settle"
    /\ stages' = stages \cup {"settle"}
    /\ \/ /\ pc' = "click_tabs"
          /\ UNCHANGED pending
       \/ \E n \in ExcTextLens(url) : Raise(n)
    /\ UNCHANGED <<unitVars, mainVars, jsVars, playwright, browser, context, page_url,
                   static_in, static_out, extracted, nav>>

\* line 158
ClickTabs ==
    /\ pc = "click_tabs"
    /\ stages' = stages \cup {"click_tabs"}
    /\ \E env \in TabEnvs(url) :
         LET r == click_tabs(1, r_interactions, r_errors, env)
         IN  /\ r_interactions' = r.interactions
             /\ r_errors' = r.errors
    /\ pc' = "click_load_more"
    /\ UNCHANGED <<unitVars, mainVars, existing_metadata, r_metadata, r_sections,
                   js_sections, pwVars, static_in, static_out, extracted, nav>>

\* line 159
ClickLoadMore ==
    /\ pc = "click_load_more"
    /\ stages' = stages \cup {"click_load_more"}
    /\ \E env \in LoadMoreEnvs(url) :
         r_interactions' = click_load_more(1, r_interactions, env)
    /\ pc' = "perform_scrolls"
    /\ UNCHANGED <<unitVars, mainVars, existing_metadata, r_metadata, r_sections, r_errors,
                   js_sections, pwVars, static_in, static_out, extracted, nav>>

\* line 160
PerformScrolls ==
    /\ pc = "perform_scrolls"
    /\ stages' = stages \cup {"perform_scrolls"}
    /\ \E env \in ScrollEnvs(url) :
         LET r == perform_scrolls(r_interactions, r_errors, env)
         IN  /\ r_interactions' = r.interactions
             /\ r_errors' = r.errors
    /\ pc' = "follow_pagination"
    /\ UNCHANGED <<unitVars, mainVars, existing_metadata, r_metadata, r_sections,
                   js_sections, pwVars, static_in, static_out, extracted, nav>>

\* line 162
FollowPagination ==
    /\ pc = "follow_pagination"
    /\ stages' = stages \cup {"follow_pagination"}
    /\ \E env \in PageEnvs(url) :
         LET r == follow_pagination(page_url, r_interactions, env)
         IN  /\ r_interactions' = r.interactions
             /\ page_url' = r.page_url
    /\ pc' = "capture"
    /\ UNCHANGED <<unitVars, mainVars, existing_metadata, r_metadata, r_sections, r_errors,
                   js_sections, playwright, browser, context, pending,
                   static_in, static_out, extracted, nav>>

\* lines 164-188: page.content() and the re-parse.  sections of scrape_url
\* is the list js_scrape merges into, unless it was empty (line 134)
Capture ==
    /\ pc = "capture"
    /\ \/ /\ stages' = stages \cup {"capture"}
          /\ \E n \in ExcTextLens(url) : Raise(n)
          /\ UNCHANGED <<sections, r_metadata, r_sections, r_errors, js_sections,
                         extracted>>
       \/ /\ stages' = stages \cup {"capture", "extract"}
          /\ \E outcome \in CaptureOutcomes(url) :
               LET r == Reparse(url, existing_metadata, r_metadata, r_sections,
                                r_errors, outcome)
               IN  /\ r_metadata' = r.metadata
                   /\ r_sections' = r.sections
                   /\ r_errors' = r.errors
                   /\ js_sections' = r.js_sections
                   /\ extracted' = r.extracted
                   /\ sections' = IF sections # <<>> THEN r.sections ELSE sections
          /\ pc' = "context_close"
          /\ UNCHANGED pending
    /\ UNCHANGED <<unitVars, url, metadata, errors, needs_js, interactions, result,
                   existing_metadata, r_interactions, playwright, browser,
                   context, page_url, static_in, static_out, nav>>

\* line 190
ContextClose ==
    /\ pc = "context_close"
    /\ \/ /\ context' = "closed"
          /\ pending' = [kind |-> "normal", excLen |-> 0]
          /\ pc' = "exit"
       \/ /\ \E n \in ExcTextLens(url) : Raise(n)
          /\ UNCHANGED context
    /\ UNCHANGED <<unitVars, mainVars, jsVars, playwright, browser, page_url, histVars>>

\* Teardown that leaves the handle as it is
TeardownLeaving(handle) == handle

\* what stopping the playwright driver does to a browser or a context
Teardown(handle) == IF handle = "open" THEN "closed" ELSE handle

\* an exception that left the block leaving js_scrape as well
AfterBlockPropagating(how) == IF how.kind = "raise" THEN "raised" ELSE "js_return"

\* lines 192-195: an exception that left the block is caught, and js_scrape
\* returns however the block was left
AfterBlock(how) == "js_return"

\* line 139: async_playwright().__aexit__(), on every way out of the block:
\* the driver is stopped and with it the browser and the contexts it owns;
\* then lines 192-193 when an exception left the block
PlaywrightExit ==
    /\ pc = "exit"
    /\ playwright' = "stopped"
    /\ browser' = Teardown(browser)
    /\ context' = Teardown(context)
    /\ r_errors' = IF pending.kind = "raise"
                   THEN Append(r_errors, JsError("Browser error: ", pending.excLen, "render"))
                   ELSE r_errors
    /\ pending' = NoPending
    /\ pc' = AfterBlock(pending)
    /\ UNCHANGED <<unitVars, mainVars, existing_metadata, r_metadata, r_sections,
                   r_interactions, js_sections, page_url, histVars>>

\* FinalMetadata without the title test of line 61
FinalMetadataAlwaysRendered(js_metadata, static_metadata) == js_metadata

\* lines 61-62
FinalMetadata(js_metadata, static_metadata) ==
    IF js_metadata.title # "" THEN js_metadata ELSE static_metadata

\* FinalInteractions keeping the log seeded at line 52
FinalInteractionsKeepingSeed(js_interactions, seeded) == seeded

\* line 66
FinalInteractions(js_interactions, seeded) == js_interactions

\* ExtendErrors putting the render pass's errors first
ExtendErrorsInFront(static_errors, js_errors) == js_errors \o static_errors

\* line 65: errors.extend(js_errors)
ExtendErrors(static_errors, js_errors) == static_errors \o js_errors

\* js_scrape returns (line 154 or 195); scrape_url lines 61-77
JsReturn ==
    /\ pc = "js_return"
    /\ metadata' = FinalMetadata(r_metadata, metadata)
    /\ sections' = IF r_sections # <<>> THEN r_sections ELSE sections
    /\ errors' = ExtendErrors(errors, r_errors)
    /\ interactions' = FinalInteractions(r_interactions, interactions)
    /\ result' = Some(ScrapeResult(url, metadata', sections', interactions', errors'))
    /\ pc' = "done"
    /\ UNCHANGED <<unitVars, url, needs_js, jsVars, pwVars, histVars>>

Next ==
    \/ StaticScrape
    \/ BranchSkip
    \/ BranchRender
    \/ StartPlaywright
    \/ Launch
    \/ NewContext
    \/ NewPage
    \/ GotoPrimary
    \/ GotoFallback
    \/ Settle
    \/ ClickTabs
    \/ ClickLoadMore
    \/ PerformScrolls
    \/ FollowPagination
    \/ Capture
    \/ ContextClose
    \/ PlaywrightExit
    \/ JsReturn

Spec == Init /\ [][Next]_vars

\* every call of the request returns or raises within its timeout, so the
\* request keeps taking steps while it has one to take
FairSpec == Init /\ [][Next]_vars /\ WF_vars(Next)

(***************************************************************************)
(* Inputs of the interaction stages applied on their own                   *)
(***************************************************************************)
\* selectors of LOAD_MORE_SELECTORS / PAGINATION_SELECTORS that match
\* anything on the pages (a prefix of each list)
NumStageSel == 2

\* rounds for which a "load more" button can stay visible
MaxStageRounds == 4

\* n successful rounds
Clicked(n) == [i \in 1..n |-> "clicked"]

\* a button: clicked for some rounds, after which it is gone, or its click
\* fails, or the pause after its click fails
ButtonRounds ==
    { Clicked(n) \o last : n \in 0..MaxStageRounds,
                           last \in {<<>>, <<"click_fails">>, <<"wait_fails">>} }

StageLoadMoreEnvs == [1..Min(NumStageSel, Len(LOAD_MORE_SELECTORS)) -> ButtonRounds]

\* URLs the browser can be at: the requested one and two further pages
StageUrls == {ShopUrl, ShopUrl \o "p2", ShopUrl \o "p3"}

\* what a "next page" selector can find: no usable link, or a link with an
\* absolute or a relative href
StageFinds == NoHref \cup StageUrls \cup {"/p2"}

\* one iteration of follow_pagination
IterEnvs ==
    [links : [1..Min(NumStageSel, Len(PAGINATION_SELECTORS)) -> StageFinds],
     click : {"raise"} \cup StageUrls]

NoIter == [links |-> <<>>, click |-> "none"]

(***************************************************************************)
(* The extraction functions applied on their own                           *)
(***************************************************************************)
\* the request's variables while a function is applied on its own
Idle ==
    /\ pc = "unit"
    /\ url = DocsUrl
    /\ Fresh

InitExtract ==
    /\ Idle
    /\ call \in { [fn |-> "extract_sections", tree |-> t, url |-> DocsUrl] :
                     t \in ScanTrees }
               \cup { [fn |-> "determine_section_type", element |-> e] :
                        e \in TypeInputs }
    /\ ret = Absent

ExtractSections ==
    /\ pc = "unit"
    /\ ret = Absent
    /\ call.fn = "extract_sections"
    /\ ret' = Some(extract_sections(call.tree, call.url))
    /\ UNCHANGED <<pc, mainVars, jsVars, pwVars, histVars, call>>

DetermineSectionType ==
    /\ pc = "unit"
    /\ ret = Absent
    /\ call.fn = "determine_section_type"
    /\ ret' = Some(determine_section_type(call.element))
    /\ UNCHANGED <<pc, mainVars, jsVars, pwVars, histVars, call>>

NextExtract ==
    \/ ExtractSections
    \/ DetermineSectionType

SpecExtract == InitExtract /\ [][NextExtract]_vars

(***************************************************************************)
(* The interaction stages applied on their own                             *)
(***************************************************************************)
\* follow_pagination starts on a page that is at the requested URL or was
\* redirected; click_load_more starts with or without earlier clicks
InitStages ==
    /\ Idle
    /\ \/ /\ call = [fn |-> "follow_pagination", i |-> 0, pending |-> FALSE,
                      it |-> NoIter]
          /\ \E p \in StageUrls :
                ret = Some(PaginationStart(p, Interactions(<<>>, 0, <<ShopUrl>>)))
       \/ /\ call \in { [fn |-> "click_load_more", env |-> e,
                          interactions |-> Interactions(c, 0, <<AppUrl>>)] :
                           e \in StageLoadMoreEnvs, c \in {<<>>, <<TAB_SELECTORS[1]>>} }
          /\ ret = Absent

\* the page as the next iteration of follow_pagination will find it
ShowLinks ==
    /\ pc = "unit"
    /\ call.fn = "follow_pagination"
    /\ ~call.pending
    /\ call.i < MaxPages - 1
    /\ ~ret[1].stopped
    /\ \E it \in IterEnvs : call' = [call EXCEPT !.it = it, !.pending = TRUE]
    /\ UNCHANGED <<pc, mainVars, jsVars, pwVars, histVars, ret>>

\* lines 93-121
FollowIteration ==
    /\ pc = "unit"
    /\ call.fn = "follow_pagination"
    /\ call.pending
    /\ ret' = Some(PaginationIteration(ret[1], call.it))
    /\ call' = [call EXCEPT !.i = @ + 1, !.pending = FALSE, !.it = NoIter]
    /\ UNCHANGED <<pc, mainVars, jsVars, pwVars, histVars>>

\* lines 56-71
ApplyClickLoadMore ==
    /\ pc = "unit"
    /\ call.fn = "click_load_more"
    /\ ret = Absent
    /\ ret' = Some(click_load_more(1, call.interactions, call.env))
    /\ UNCHANGED <<pc, mainVars, jsVars, pwVars, histVars, call>>

NextStages ==
    \/ ShowLinks
    \/ FollowIteration
    \/ ApplyClickLoadMore

SpecStages == InitStages /\ [][NextStages]_vars

(***************************************************************************)
(* Properties                                                              *)
(***************************************************************************)
Ids(secs) == {secs[i].id : i \in 1..Len(secs)}

AllTextEmpty(secs) == \A i \in 1..Len(secs) : secs[i].textLen = 0

\* C1: static_scrape returns needs_js = true iff the fetch failed, or the
\* measured body text is shorter than 500 characters, or no section was
\* extracted, or every extracted section has empty text; 400 characters give
\* true, 600 characters with a section of non-empty text give false.
C1_NeedsRenderIff ==
    static_out # Absent =>
        LET in == static_in[1]
            out == static_out[1]
        IN  /\ out.needs_js <=>
                  \/ in.fetch # "ok"
                  \/ (in.text_length >= 0 /\ in.text_length < 500)
                  \/ out.sections = <<>>
                  \/ AllTextEmpty(out.sections)
            /\ in.text_length = 400 => out.needs_js
            /\ (in.text_length = 600 /\ ~AllTextEmpty(out.sections)) => ~out.needs_js

\* 600 characters of body text, sections extracted, all with empty text
C1_Witness ==
    /\ static_out # Absent
    /\ static_in[1].text_length = 600
    /\ static_out[1].sections # <<>>
    /\ AllTextEmpty(static_out[1].sections)
    /\ static_out[1].needs_js

\* C2: js_scrape is invoked iff static_scrape returned needs_js = true; an
\* empty section list always comes with needs_js = true; when needs_js is
\* false the result carries exactly the static metadata, sections and errors.
C2_RenderIffNeedsJs ==
    static_out # Absent =>
        LET out == static_out[1]
        IN  /\ out.sections = <<>> => out.needs_js
            /\ pc # "branch" => (("js_scrape" \in stages) <=> out.needs_js)
            /\ (pc = "done" /\ ~out.needs_js) =>
                  /\ stages = {}
                  /\ result[1].meta = out.metadata
                  /\ result[1].sections = out.sections
                  /\ result[1].errors = out.errors

\* a request answered from the static pass alone
C2_Witness ==
    /\ pc = "done"
    /\ ~static_out[1].needs_js
    /\ stages = {}
    /\ result[1].sections = static_out[1].sections
    /\ result[1].sections # <<>>

\* the variant the merge keeps for a static section and a rendered section of
\* the same id
Kept(static, rendered) ==
    IF rendered.textLen > static.textLen THEN rendered ELSE static

\* C3: where a rendered section has the id of a static section, the merged
\* list holds at the static section's position the variant with the strictly
\* longer text, the static one on a tie; so does the final result.
C3_LongerVariantKept ==
    js_sections # Absent =>
        LET st == static_out[1].sections
            js == js_sections[1]
        IN  \A i \in 1..Len(st) : \A k \in 1..Len(js) :
                js[k].id = st[i].id =>
                    /\ r_sections[i] = Kept(st[i], js[k])
                    /\ pc = "done" => result[1].sections[i] = Kept(st[i], js[k])

\* a rendered section replaced the shorter static section of the same id
C3_Witness ==
    /\ pc = "done"
    /\ js_sections # Absent
    /\ \E i \in 1..Len(static_out[1].sections) : \E k \in 1..Len(js_sections[1]) :
          /\ js_sections[1][k].id = static_out[1].sections[i].id
          /\ js_sections[1][k].textLen > static_out[1].sections[i].textLen
          /\ result[1].sections[i] = js_sections[1][k]
          /\ result[1].sections[i].origin = "browser"

\* the rendered sections whose id no static section has, in scan order
NewSections(st, js) == SelectSeq(js, LAMBDA x : x.id \notin Ids(st))

\* C4: the merged list is the static sections, each at its position and
\* either itself or the rendered section of its id, followed by the rendered
\* sections of new ids in scan order; its ids are the union of both passes'
\* ids; the final result holds that list.
C4_NewSectionsAppended ==
    js_sections # Absent =>
        LET st == static_out[1].sections
            js == js_sections[1]
        IN  /\ Len(r_sections) = Len(st) + Len(NewSections(st, js))
            /\ \A i \in 1..Len(st) :
                  /\ r_sections[i].id = st[i].id
                  /\ r_sections[i] \in {st[i]} \cup Range(js)
            /\ SubSeq(r_sections, Len(st) + 1, Len(r_sections)) = NewSections(st, js)
            /\ Ids(r_sections) = Ids(st) \cup Ids(js)
            /\ pc = "done" => result[1].sections = r_sections

\* two rendered sections of new ids follow a static section
C4_Witness ==
    /\ pc = "done"
    /\ js_sections # Absent
    /\ static_out[1].sections # <<>>
    /\ Len(NewSections(static_out[1].sections, js_sections[1])) = 2
    /\ Len(result[1].sections) = Len(static_out[1].sections) + 2
    /\ result[1].sections[Len(result[1].sections)] = js_sections[1][2]

\* C5: every request completes with a ScrapeResult, whichever calls fail.
C5_RequestCompletes == <>(pc = "done" /\ result # Absent)

\* a request completed after the fetch and the browser session both failed
C5_Witness ==
    /\ pc = "done"
    /\ result # Absent
    /\ Len(result[1].errors) >= 2
    /\ result[1].errors[1].phase = "fetch"
    /\ result[1].errors[2].phase = "render"

LaterStages ==
    {"click_tabs", "click_load_more", "perform_scrolls", "follow_pagination",
     "capture"}

\* C6: once navigation has succeeded, every later stage and the capture are
\* attempted, whichever of the settle pause, the tabs, the load-more, the
\* scroll and the pagination steps fails.
C6_LaterStagesAttempted ==
    (pc = "done" /\ "settle" \in stages) => LaterStages \subseteq stages

\* C7: every static section id is in the final result with a text at least as
\* long, and the final metadata is the static metadata unless metadata with a
\* non-empty title extracted from the rendered document replaced it,
\* whichever render or interaction step fails.
C7_StaticResultsKept ==
    (pc = "done" /\ "js_scrape" \in stages) =>
        LET st == static_out[1].sections
            final == result[1].sections
        IN  /\ \A i \in 1..Len(st) : \E j \in 1..Len(final) :
                  /\ final[j].id = st[i].id
                  /\ final[j].textLen >= st[i].textLen
            /\ \/ result[1].meta = static_out[1].metadata
               \/ /\ "extract" \in stages
                  /\ result[1].meta = r_metadata
                  /\ r_metadata.title # ""

\* the browser session failed after the static pass had extracted sections
C7_Witness ==
    /\ pc = "done"
    /\ static_out[1].sections # <<>>
    /\ \E i \in 1..Len(r_errors) : r_errors[i].phase = "render"
    /\ result[1].sections = static_out[1].sections
    /\ result[1].meta = static_out[1].metadata

NavigationFailed == Len(nav) = 2 /\ ~nav[2].ok

\* C8: navigation is attempted with networkidle / 15 s first and retried,
\* once, with domcontentloaded / 10 s only when that failed; when the retry
\* fails too, exactly one render error is recorded, no stage and no capture
\* runs, and js_scrape returns the metadata and sections it was given (an
\* empty MetaData when it was given none) with interactions
\* {clicks: [], scrolls: 0, pages: [url]}.
C8_NavigationRetry ==
    /\ Len(nav) <= 2
    /\ Len(nav) >= 1 => nav[1].wait_until = "networkidle" /\ nav[1].timeout = 15000
    /\ Len(nav) = 2 =>
          /\ ~nav[1].ok
          /\ nav[2].wait_until = "domcontentloaded" /\ nav[2].timeout = 10000
    /\ (Len(nav) = 1 /\ ~nav[1].ok) => pc = "goto_retry"
    /\ "settle" \in stages => nav[Len(nav)].ok
    /\ (NavigationFailed /\ pc \in {"js_return", "done"}) =>
          /\ Len(r_errors) = 1
          /\ r_errors[1].phase = "render"
          /\ r_errors[1].msg = "Navigation failed: "
          /\ stages = {"js_scrape"}
          /\ js_sections = Absent
          /\ r_metadata = IF existing_metadata = Absent THEN EmptyMetaData
                          ELSE existing_metadata[1]
          /\ r_sections = static_out[1].sections
          /\ r_interactions = [clicks |-> <<>>, scrolls |-> 0, pages |-> <<url>>]

\* js_scrape returned after both navigation attempts failed
C8_Witness ==
    /\ pc = "js_return"
    /\ NavigationFailed
    /\ existing_metadata # Absent
    /\ r_sections # <<>>

C10_StaticFailureEscalates ==
    (static_out # Absent /\ (static_in[1].fetch # "ok" \/ static_in[1].parse # "ok")) =>
        LET out == static_out[1]
        IN  /\ out.metadata = [title |-> "", description |-> "", language |-> "",
                               canonical |-> ""]
            /\ out.sections = <<>>
            /\ Len(out.errors) = 1
            /\ out.errors[1].phase = IF static_in[1].fetch # "ok" THEN "fetch" ELSE "parse"
            /\ out.needs_js
            /\ pc # "branch" => "js_scrape" \in stages

\* the parse failed and the render pass supplied the sections
C10_Witness ==
    /\ pc = "done"
    /\ static_in[1].parse = "fail"
    /\ "extract" \in stages
    /\ result[1].sections # <<>>
    /\ result[1].errors[1].phase = "parse"

\* C11: when the render pass extracted metadata with a non-empty title from
\* the rendered document, the final metadata is that metadata, all four
\* fields; otherwise it is the static metadata (when the static title is
\* non-empty the rendered document's metadata is not extracted at all).
C11_RenderedTitleReplaces ==
    pc = "done" =>
        LET static == static_out[1].metadata
            final == result[1].meta
        IN  /\ (extracted # Absent /\ extracted[1].title # "") =>
                  /\ final.title = extracted[1].title
                  /\ final.description = extracted[1].description
                  /\ final.language = extracted[1].language
                  /\ final.canonical = extracted[1].canonical
            /\ (extracted = Absent \/ extracted[1].title = "") => final = static
            /\ static.title # "" => extracted = Absent

\* a rendered title replaced static metadata that had no title but had a
\* description
C11_Witness ==
    /\ pc = "done"
    /\ static_out[1].metadata.title = ""
    /\ static_out[1].metadata.description # ""
    /\ extracted # Absent
    /\ extracted[1].title # ""
    /\ extracted[1].description = ""
    /\ result[1].meta = extracted[1]

\* extract_sections was applied to a document and returned
Extracted == pc = "unit" /\ ret # Absent /\ call.fn = "extract_sections"

\* the sections came from the landmark scan, not from the body fallback
FromLandmarks(secs) == secs # <<>> /\ secs[1].id # "body-0"

\* the element has text, a heading or a kept link
HasContent(e) == e.paraLen > 0 \/ e.fullLen > 0 \/ e.headings > 0 \/ e.links > 0

\* the elements of tag t in document order
OfTag(elems, t) == SelectSeq(elems, LAMBDA e : e.tag = t)

\* the elements with content in scan order: selector order, then document
\* order
Emitting(elems) ==
    SelectSeq(OfTag(elems, "header") \o OfTag(elems, "nav") \o OfTag(elems, "main")
              \o OfTag(elems, "section") \o OfTag(elems, "article")
              \o OfTag(elems, "aside") \o OfTag(elems, "footer"),
              HasContent)

\* C12: within one extract_sections pass the i-th section of the landmark
\* scan has id "{type}-{n}", n being the number of sections of its type
\* emitted before it; the ids are pairwise distinct, each type's ordinals are
\* 0..k-1, and elements skipped as empty take no ordinal (there is one
\* section per element with content, in scan order).
C12_OrdinalIds ==
    (Extracted /\ FromLandmarks(ret[1])) =>
        LET secs == ret[1]
            SameTypeBefore(i) == {j \in 1..(i - 1) : secs[j].type = secs[i].type}
            OfType(t) == {i \in 1..Len(secs) : secs[i].type = t}
        IN  /\ \A i \in 1..Len(secs) :
                  secs[i].id = secs[i].type \o "-" \o ToString(Cardinality(SameTypeBefore(i)))
            /\ \A i, j \in 1..Len(secs) : i # j => secs[i].id # secs[j].id
            /\ \A i \in 1..Len(secs) :
                  {secs[j].id : j \in OfType(secs[i].type)} =
                  {secs[i].type \o "-" \o ToString(n) :
                      n \in 0..(Cardinality(OfType(secs[i].type)) - 1)}
            /\ Len(secs) = Len(Emitting(call.tree.elems))

\* an empty section precedes two sections with content in the document: the
\* two are section-0 and section-1; a header and a nav of class "Hero" are
\* hero-0 and hero-1
C12_Witness ==
    /\ Extracted
    /\ Len(call.tree.elems) = 3
    /\ call.tree.elems[1].tag = "section" /\ ~HasContent(call.tree.elems[1])
    /\ Len(ret[1]) = 2
    /\ ret[1][1].id = "section-0"
    /\ ret[1][2].id = "section-1"

\* C13: the landmark scan emits no section with empty text, no headings and
\* no links; a section with all three empty is the fallback section, id
\* "body-0" and type "unknown", which is emitted iff no landmark element has
\* content and the document has a body.
C13_NoEmptyLandmarkSection ==
    Extracted =>
        LET secs == ret[1]
            Empty(x) == x.textLen = 0 /\ x.headings = 0 /\ x.links = 0
            Fallback(x) == x.id = "body-0"
        IN  /\ \A i \in 1..Len(secs) :
                  Empty(secs[i]) => Fallback(secs[i])
            /\ \A i \in 1..Len(secs) :
                  Fallback(secs[i]) => secs[i].type = "unknown" /\ Len(secs) = 1
            /\ (\E i \in 1..Len(secs) : Fallback(secs[i])) <=>
                  /\ call.tree.hasBody
                  /\ \A k \in 1..Len(call.tree.elems) : ~HasContent(call.tree.elems[k])

\* a document whose landmark elements are all empty and whose body has no
\* text: the only section is an empty body-0
C13_Witness ==
    /\ Extracted
    /\ Len(call.tree.elems) >= 2
    /\ Len(ret[1]) = 1
    /\ ret[1][1].id = "body-0"
    /\ ret[1][1].textLen = 0 /\ ret[1][1].headings = 0 /\ ret[1][1].links = 0

\* C14: in every result interactions.pages is non-empty and starts with the
\* requested URL; without a render pass the log is
\* {clicks: [], scrolls: 0, pages: [url]}; with a render pass, failed or not,
\* it is the log that pass built.
C14_InteractionsLog ==
    pc = "done" =>
        LET log == result[1].interactions
        IN  /\ log.pages # <<>>
            /\ log.pages[1] = url
            /\ "js_scrape" \notin stages =>
                  log = [clicks |-> <<>>, scrolls |-> 0, pages |-> <<url>>]
            /\ "js_scrape" \in stages => log = r_interactions

\* a render pass clicked and scrolled, then failed: its log is in the result
C14_Witness ==
    /\ pc = "done"
    /\ \E i \in 1..Len(r_errors) : r_errors[i].msg = "Browser error: "
    /\ result[1].interactions.clicks # <<>>
    /\ result[1].interactions.scrolls > 0
    /\ result[1].interactions.pages[1] = url

\* s is an initial segment of t
IsPrefix(s, t) == Len(s) <= Len(t) /\ SubSeq(t, 1, Len(s)) = s

\* C15: the errors of the final result are the static pass's errors followed
\* by the render pass's errors; within each pass an error, once recorded,
\* keeps its place: errors are only ever added at the end.
C15_ErrorsInOrder ==
    /\ [](pc = "done" =>
            /\ IsPrefix(static_out[1].errors, result[1].errors)
            /\ result[1].errors =
                  static_out[1].errors \o (IF "js_scrape" \in stages THEN r_errors ELSE <<>>))
    /\ [][IsPrefix(errors, errors') /\ IsPrefix(r_errors, r_errors')]_vars

\* a failed fetch, then a failed tab query, then a failed capture
C15_Witness ==
    /\ pc = "done"
    /\ Len(result[1].errors) = 3
    /\ result[1].errors[1].phase = "fetch"
    /\ result[1].errors[2].msg = "Tab click error: "
    /\ result[1].errors[3].msg = "Browser error: "

\* the longest message the render pass can record: its longest prefix
\* followed by ErrTextCap characters of exception text
MessageCap == Len("Navigation failed: ") + ErrTextCap

\* C16: every error of a result, whatever its phase, has a message no longer
\* than a fixed bound, however long the text of the failure is.
C16_MessagesBounded ==
    pc = "done" =>
        \A i \in 1..Len(result[1].errors) : result[1].errors[i].len <= MessageCap

\* determine_section_type was applied to an element and returned
Classified == pc = "unit" /\ ret # Absent /\ call.fn = "determine_section_type"

\* the types in priority order
TypePriority == <<"hero", "nav", "footer", "faq", "pricing", "grid", "list">>

\* the keywords of each type
Keywords(type) ==
    CASE type = "hero" -> {<<"h", "e", "r", "o">>, <<"b", "a", "n", "n", "e", "r">>, <<"j", "u", "m", "b", "o", "t", "r", "o", "n">>, <<"s", "p", "l", "a", "s", "h">>}
      [] type = "nav" -> {<<"n", "a", "v">>, <<"m", "e", "n", "u">>, <<"n", "a", "v", "i", "g", "a", "t", "i", "o", "n">>}
      [] type = "footer" -> {<<"f", "o", "o", "t", "e", "r">>, <<"f", "o", "o", "t">>}
      [] type = "faq" -> {<<"f", "a", "q">>, <<"a", "c", "c", "o", "r", "d", "i", "o", "n">>, <<"q", "u", "e", "s", "t", "i", "o", "n">>}
      [] type = "pricing" -> {<<"p", "r", "i", "c", "e">>, <<"p", "r", "i", "c", "i", "n", "g">>, <<"p", "l", "a", "n">>}
      [] type = "grid" -> {<<"g", "r", "i", "d">>, <<"c", "a", "r", "d", "s">>, <<"g", "a", "l", "l", "e", "r", "y">>}
      [] type = "list" -> {<<"l", "i", "s", "t">>, <<"i", "t", "e", "m", "s">>}

\* the base type of a tag
BaseType(tag) ==
    CASE tag = "header" -> "hero"
      [] tag = "nav" -> "nav"
      [] tag = "footer" -> "footer"
      [] tag \in {"main", "section", "article", "aside"} -> "section"
      [] OTHER -> "unknown"

\* C17: determine_section_type returns the type of the first group, in the
\* order hero, nav, footer, faq, pricing, grid, list, one of whose keywords
\* occurs in the lowercased class and id attributes (joined by a space); when
\* no group matches, the tag's base type, "unknown" for a tag without one.  A
\* <section class="pricing-table"> is classified "pricing".
C17_FirstMatchingGroup ==
    Classified =>
        LET e == call.element
            combined == Lower(e.class \o <<" ">> \o e.id)
            Matches(k) == \E w \in Keywords(TypePriority[k]) : Contains(combined, w)
            hits == {k \in 1..Len(TypePriority) : Matches(k)}
        IN  /\ hits # {} =>
                  \E k \in hits : /\ \A j \in hits : k <= j
                                  /\ ret[1] = TypePriority[k]
            /\ hits = {} => ret[1] = BaseType(e.tag)
            /\ (e.tag = "section" /\ e.class = <<"p", "r", "i", "c", "i", "n", "g", "-", "t", "a", "b", "l", "e">> /\ e.id = <<>>) =>
                  ret[1] = "pricing"

\* a section of class "pricing-table" and id "splash": the hero group comes
\* first, although its keyword is found after the pricing keyword
C17_Witness ==
    /\ Classified
    /\ call.element.tag = "section"
    /\ call.element.class = <<"p", "r", "i", "c", "i", "n", "g", "-", "t", "a", "b", "l", "e">>
    /\ call.element.id = <<"s", "p", "l", "a", "s", "h">>
    /\ ret[1] = "hero"

\* C18: every section, from the landmark scan or the body fallback, has a
\* rawHtml of at most 1003 characters; truncated is true iff the element's
\* markup was longer than 1000 characters; a truncated rawHtml is 1000
\* characters of markup and the 3 characters of the marker, an untruncated
\* one is the whole markup.
C18_RawHtmlTruncation ==
    Extracted =>
        LET secs == ret[1]
            MarkupLen(i) == IF secs[i].id = "body-0" THEN call.tree.bodyHtmlLen
                            ELSE Emitting(call.tree.elems)[i].htmlLen
        IN  \A i \in 1..Len(secs) :
                /\ secs[i].rawLen <= 1003
                /\ secs[i].truncated <=> MarkupLen(i) > 1000
                /\ secs[i].truncated => secs[i].rawLen = 1000 + 3
                /\ ~secs[i].truncated => secs[i].rawLen = MarkupLen(i)

\* markup of 1001 characters is truncated, markup of 1000 characters is kept
C18_Witness ==
    /\ Extracted
    /\ Len(ret[1]) = 2
    /\ ret[1][1].truncated /\ ret[1][1].rawLen = 1003
    /\ Emitting(call.tree.elems)[1].htmlLen = 1001
    /\ ~ret[1][2].truncated /\ ret[1][2].rawLen = 1000

\* follow_pagination is running
Paginating == pc = "unit" /\ call.fn = "follow_pagination"

\* C19: follow_pagination clicks at most 2 times and interactions.pages never
\* has more than 3 entries; an iteration clicks the first selector in list
\* order that found a visible link whose href is not in the visited list,
\* and the loop stops at the first iteration without one; the URL after a
\* click is appended to interactions.pages only if it is not in the visited
\* list.
C19_PaginationBounded ==
    /\ [](Paginating =>
            /\ Len(ret[1].clicked) <= 2
            /\ Len(ret[1].interactions.pages) <= 3)
    /\ [][(Paginating /\ call.pending) =>
            LET before == ret[1]
                after == ret'[1]
                it == call.it
                candidates ==
                    {k \in DOMAIN it.links :
                        /\ it.links[k] \notin {"raise", "none", ""}
                        /\ \A v \in 1..Len(before.visited_urls) :
                              before.visited_urls[v] # it.links[k]}
                visited == \E v \in 1..Len(before.visited_urls) :
                              before.visited_urls[v] = it.click
            IN  /\ ~before.stopped
                /\ after.stopped <=> candidates = {}
                /\ candidates = {} =>
                      /\ after.clicked = before.clicked
                      /\ after.interactions = before.interactions
                /\ candidates # {} =>
                      \E k \in candidates :
                          /\ \A j \in candidates : k <= j
                          /\ after.clicked = Append(before.clicked, PAGINATION_SELECTORS[k])
                /\ after.interactions.pages =
                      IF candidates # {} /\ it.click # "raise" /\ ~visited
                      THEN Append(before.interactions.pages, it.click)
                      ELSE before.interactions.pages]_vars

\* two follows, the second one through the second selector because the first
\* selector offered no unvisited link; pages has 3 entries
C19_Witness ==
    /\ Paginating
    /\ Len(ret[1].clicked) = 2
    /\ ret[1].clicked[2] = PAGINATION_SELECTORS[2]
    /\ Len(ret[1].interactions.pages) = 3

\* click_load_more was applied and returned
LoadedMore == pc = "unit" /\ call.fn = "click_load_more" /\ ret # Absent

\* the rounds, of the first 3, in which the button is clicked: those up to
\* the first round whose click fails or that no longer finds the button; a
\* round whose click succeeds and whose pause fails is the last one
SuccessfulClicks(rounds) ==
    Cardinality({i \in 1..3 :
        /\ i <= Len(rounds)
        /\ rounds[i] \in {"clicked", "wait_fails"}
        /\ \A j \in 1..(i - 1) : rounds[j] = "clicked"})

RECURSIVE ExpectedClicks(_, _)
ExpectedClicks(env, k) ==
    IF k \notin DOMAIN env THEN <<>>
    ELSE [i \in 1..SuccessfulClicks(env[k]) |-> LOAD_MORE_SELECTORS[k]]
         \o ExpectedClicks(env, k + 1)

\* C20: click_load_more takes the selectors in list order, clicks each
\* one's button at most 3 times, records the selector once per successful
\* click, and goes on to the next selector when the button is gone or a click
\* fails; a failure on one selector does not keep the later ones from being
\* tried.
C20_LoadMoreClicks ==
    LoadedMore =>
        /\ ret[1].clicks = call.interactions.clicks \o ExpectedClicks(call.env, 1)
        /\ \A k \in DOMAIN call.env :
              Cardinality({i \in 1..Len(ret[1].clicks) :
                              ret[1].clicks[i] = LOAD_MORE_SELECTORS[k]}) <= 3
        /\ ret[1].scrolls = call.interactions.scrolls
        /\ ret[1].pages = call.interactions.pages

\* the first button stays visible for 4 rounds and is clicked 3 times; the
\* click on the second button fails on its second round, after one click
C20_Witness ==
    /\ LoadedMore
    /\ call.interactions.clicks = <<>>
    /\ Len(call.env[1]) = 4
    /\ call.env[2] = <<"clicked", "click_fails">>
    /\ ret[1].clicks = <<LOAD_MORE_SELECTORS[1], LOAD_MORE_SELECTORS[1],
                          LOAD_MORE_SELECTORS[1], LOAD_MORE_SELECTORS[2]>>

\* no two sections of the list have the same id
DistinctIds(secs) == \A i, j \in 1..Len(secs) : i # j => secs[i].id # secs[j].id

\* C21: the sections of every result have pairwise distinct ids, whatever
\* section lists the static and the render pass produced, a static body-0
\* merged with rendered landmark sections included; so has the list
\* js_scrape merges into, at every step.
C21_DistinctSectionIds ==
    /\ DistinctIds(sections)
    /\ DistinctIds(r_sections)
    /\ pc = "done" => DistinctIds(result[1].sections)

\* a static body-0 fallback merged with two rendered landmark sections, one
\* of which has the id of no static section and one the type of the other
C21_Witness ==
    /\ pc = "done"
    /\ Len(static_out[1].sections) = 1
    /\ static_out[1].sections[1].id = "body-0"
    /\ js_sections # Absent
    /\ Len(js_sections[1]) = 2
    /\ Len(result[1].sections) = 3
    /\ result[1].sections[1].id = "body-0"
    /\ result[1].sections[2].id = "section-0"
    /\ result[1].sections[3].id = "section-1"

\* C22: interactions.pages never holds the same URL twice, whatever the
\* pagination follows and whether or not the browser, after navigation, is
\* at the requested URL.
C22_PagesDistinct ==
    pc = "done" =>
        LET pages == result[1].interactions.pages
        IN  \A i, j \in 1..Len(pages) : i # j => pages[i] # pages[j]

====
